---------------------------- MODULE Spec2Model ----------------------------
(***************************************************************************)
(* Model of scripts/convert_garaga.py: the conversion of a rapidsnark      *)
(* Groth16 proof into the Garaga calldata of a StarkNet verifier.          *)
(*                                                                         *)
(* Python integers are unbounded and STARKNET_FELT_MAX is a 252-bit        *)
(* number; TLC's integers are 32-bit.  The modulus keeps the source's      *)
(* shape 2^hi + 17 * 2^lo + 1 with the two exponents scaled down           *)
(* (FeltHiExp, FeltLoExp), and every input value is chosen relative to it. *)
(*                                                                         *)
(* Text is a sequence of one-character strings, so that int(), hex() and   *)
(* str() are computed digit by digit as Python computes them.              *)
(***************************************************************************)
EXTENDS Integers, Sequences, FiniteSets, TLC

VARIABLES
    pc,           \* position of the running function or of main
    value,        \* apply_felt_modulo: its argument
    reduced,      \* apply_felt_modulo: its result
    argv,         \* sys.argv
    fs,           \* the file system: path -> file content
    fs0,          \* the file system as it was when main started
    garaga_file,  \* main: the path of the side file
    conv,         \* outcome of convert_proof_to_garaga
    cd,           \* outcome of proof_to_calldata
    stdout,       \* what was printed to sys.stdout
    stderr,       \* what was printed to sys.stderr
    exit_code     \* the process's exit status (NoExit while running)

vars == <<pc, value, reduced, argv, fs, fs0, garaga_file, conv, cd,
          stdout, stderr, exit_code>>

---------------------------------------------------------------------------
(* Bounds of the model *)

\* exponent of the leading term of the modulus (251 in the source)
FeltHiExp == 6
\* exponent of the middle term of the modulus (192 in the source)
FeltLoExp == 0
\* apply_felt_modulo is applied to values up to MaxMultiple * modulus + 3
MaxMultiple == 3
\* ... and down to -MaxNegative
MaxNegative == 3

---------------------------------------------------------------------------
(* Constants of the program *)

STARKNET_FELT_MAX == 2^FeltHiExp + 17 * 2^FeltLoExp + 1

---------------------------------------------------------------------------
(* JSON values as json.load returns them.  t is the Python type; n the     *)
(* value of an int or bool and the integral part of a float (s holds its   *)
(* fraction digits), s the characters of a str, e the elements of a list.  *)
(* "absent" marks a key that the enclosing dict does not have.             *)

J(t, n, s, e) == [t |-> t, n |-> n, s |-> s, e |-> e]
JAbsent == J("absent", 0, <<>>, <<>>)
JNull == J("NoneType", 0, <<>>, <<>>)
JDict == J("dict", 0, <<>>, <<>>)
Num(n) == J("int", n, <<>>, <<>>)
Str(s) == J("str", 0, s, <<>>)
List(e) == J("list", 0, <<>>, e)

(* Exceptions: the class, the fixed text of the message and the value      *)
(* interpolated into it (a key, a protocol value, the offending literal).  *)
Exc(type, text, val) == [type |-> type, text |-> text, val |-> val]
NoExc == Exc("None", "", JNull)

(* The outcome of evaluating an expression: an exception or a value v. *)
Raise(e) == [exc |-> e, v |-> JNull]
Return(v) == [exc |-> NoExc, v |-> v]
Raised(r) == r.exc # NoExc

---------------------------------------------------------------------------
(* Python's text/number conversions *)

DIGITS == <<"0", "1", "2", "3", "4", "5", "6", "7", "8", "9",
            "a", "b", "c", "d", "e", "f">>
UPPER == <<"0", "1", "2", "3", "4", "5", "6", "7", "8", "9",
           "A", "B", "C", "D", "E", "F">>
WHITESPACE == {" ", "\n", "\t"}

\* the value of digit character c in the given base, or -1
DigitValue(c, base) ==
    LET hits == {i \in 1..base : DIGITS[i] = c \/ UPPER[i] = c}
    IN IF hits = {} THEN 0 - 1 ELSE (CHOOSE i \in hits : TRUE) - 1

RECURSIVE Strip(_)
Strip(s) ==
    IF s = <<>> THEN s
    ELSE IF s[1] \in WHITESPACE THEN Strip(Tail(s))
    ELSE IF s[Len(s)] \in WHITESPACE THEN Strip(SubSeq(s, 1, Len(s) - 1))
    ELSE s

RECURSIVE DigitsValue(_, _)
DigitsValue(ds, base) ==
    IF ds = <<>> THEN 0
    ELSE DigitsValue(SubSeq(ds, 1, Len(ds) - 1), base) * base
         + DigitValue(ds[Len(ds)], base)

\* int(text, base) for base 10 and 16: surrounding whitespace, a sign, for
\* base 16 an optional 0x/0X prefix, then digits, single underscores allowed
\* between digits (and right after a prefix).
Signed(t) == t # <<>> /\ t[1] \in {"+", "-"}
Unsigned(t) == IF Signed(t) THEN Tail(t) ELSE t
Prefixed(u, base) ==
    base = 16 /\ Len(u) >= 2 /\ u[1] = "0" /\ u[2] \in {"x", "X"}
Unprefixed(u, base) ==
    IF ~Prefixed(u, base) THEN u
    ELSE IF Len(u) >= 3 /\ u[3] = "_" THEN SubSeq(u, 4, Len(u))
    ELSE SubSeq(u, 3, Len(u))
UnderscoresOk(w) ==
    \A i \in 1..Len(w) :
        w[i] = "_" => /\ i > 1 /\ i < Len(w)
                      /\ w[i - 1] # "_" /\ w[i + 1] # "_"
AllDigits(ds, base) ==
    ds # <<>> /\ \A i \in 1..Len(ds) : DigitValue(ds[i], base) >= 0
NotUnderscore(c) == c # "_"
\* the value of an unsigned literal without prefix, -1 if it is not one
Magnitude(w, base) ==
    IF UnderscoresOk(w) /\ AllDigits(SelectSeq(w, NotUnderscore), base)
    THEN DigitsValue(SelectSeq(w, NotUnderscore), base)
    ELSE 0 - 1
Literal(magnitude, negative, s) ==
    IF magnitude < 0
    THEN Raise(Exc("ValueError", "invalid literal for int() with base", Str(s)))
    ELSE Return(Num(IF negative THEN 0 - magnitude ELSE magnitude))
Stripped(t, base, s) ==
    Literal(Magnitude(Unprefixed(Unsigned(t), base), base), Signed(t) /\ t[1] = "-", s)
int_text(s, base) == Stripped(Strip(s), base, s)

\* int(x): of an int or bool, of a float (truncated towards zero), of a str
\* in base 10; a TypeError of anything else
int(x) ==
    CASE x.t \in {"int", "bool", "float"} -> Return(Num(x.n))
      [] x.t = "str" -> int_text(x.s, 10)
      [] OTHER -> Raise(Exc("TypeError", "int() argument must be a string or a number", x))

\* int(x, 16): only of a str
int16(x) ==
    IF x.t = "str" THEN int_text(x.s, 16)
    ELSE Raise(Exc("TypeError", "int() can't convert non-string with explicit base", x))

RECURSIVE Numeral(_, _)
Numeral(n, base) ==
    IF n < base THEN <<DIGITS[n + 1]>>
    ELSE Numeral(n \div base, base) \o <<DIGITS[(n % base) + 1]>>

\* hex(n): '0x...' in lower case, '-0x...' for a negative n
hex(n) == IF n < 0 THEN <<"-", "0", "x">> \o Numeral(0 - n, 16)
          ELSE <<"0", "x">> \o Numeral(n, 16)

\* str(n)
str(n) == IF n < 0 THEN <<"-">> \o Numeral(0 - n, 10) ELSE Numeral(n, 10)

---------------------------------------------------------------------------
(* apply_felt_modulo *)

\* apply_felt_modulo with the comparison off by one
apply_felt_modulo_le(v) ==
    IF v <= STARKNET_FELT_MAX THEN v ELSE v % STARKNET_FELT_MAX

\* returns value below the modulus unchanged, value % modulus otherwise
apply_felt_modulo(v) ==
    IF v < STARKNET_FELT_MAX THEN v ELSE v % STARKNET_FELT_MAX

---------------------------------------------------------------------------
(* Dicts.  A dict is modelled by the keys the program ever reads:          *)
(* protocol, pi_a, pi_b, pi_c of a rapidsnark proof and a, b, c of a       *)
(* Garaga proof; a, b, c hold the keys x and y.  kind tells what a file    *)
(* holds: no file at all, text that is not JSON, a JSON object, or a JSON  *)
(* document that is not an object.                                         *)

Point(t, x, y) == [t |-> t, x |-> x, y |-> y]
NoPoint == Point("absent", JAbsent, JAbsent)

Dict(kind, protocol, pi_a, pi_b, pi_c, a, b, c) ==
    [kind |-> kind, protocol |-> protocol, pi_a |-> pi_a, pi_b |-> pi_b,
     pi_c |-> pi_c, a |-> a, b |-> b, c |-> c]
EmptyDict == Dict("object", JAbsent, JAbsent, JAbsent, JAbsent, NoPoint, NoPoint, NoPoint)
NoFile == [EmptyDict EXCEPT !.kind = "absent"]
Garbage == [EmptyDict EXCEPT !.kind = "garbage"]
NoDict == [EmptyDict EXCEPT !.kind = "none"]

\* obj[i] for an integer i (0-based, as in the source), of an outcome r
GetItem(r, i) ==
    IF Raised(r) THEN r
    ELSE CASE r.v.t = "list" ->
                IF i < Len(r.v.e) THEN Return(r.v.e[i + 1])
                ELSE Raise(Exc("IndexError", "list index out of range", Num(i)))
           [] r.v.t = "str" ->
                IF i < Len(r.v.s) THEN Return(Str(<<r.v.s[i + 1]>>))
                ELSE Raise(Exc("IndexError", "string index out of range", Num(i)))
           [] r.v.t = "dict" -> Raise(Exc("KeyError", "", Num(i)))
           [] OTHER -> Raise(Exc("TypeError", "object is not subscriptable", r.v))

\* int(...) of an outcome
IntOf(r) == IF Raised(r) THEN r ELSE int(r.v)
Int16Of(r) == IF Raised(r) THEN r ELSE int16(r.v)

\* d[key] for a dict d read from a file: d.kind is "object" or "array"
GetKey(d, key, held) ==
    IF d.kind # "object"
    THEN Raise(Exc("TypeError", "list indices must be integers or slices, not str", Str(key)))
    ELSE IF held.t = "absent" THEN Raise(Exc("KeyError", "", Str(key)))
    ELSE Return(held)

\* the exception of the first outcome that raised, NoExc if none did
RECURSIVE FirstRaised(_)
FirstRaised(rs) ==
    IF rs = <<>> THEN NoExc
    ELSE IF Raised(rs[1]) THEN rs[1].exc
    ELSE FirstRaised(Tail(rs))

---------------------------------------------------------------------------
(* convert_proof_to_garaga *)

GROTH16 == <<"g", "r", "o", "t", "h", "1", "6">>
PI_A == <<"p", "i", "_", "a">>
PI_B == <<"p", "i", "_", "b">>
PI_C == <<"p", "i", "_", "c">>

Line(msg, arg) == [msg |-> msg, arg |-> arg]

Outcome(ok, val, exc, cause, log) ==
    [ok |-> ok, value |-> val, exc |-> exc, cause |-> cause, log |-> log]

\* json.load(open(path)): of the file's content
json_load(file) ==
    CASE file.kind = "absent" ->
            Raise(Exc("FileNotFoundError", "No such file or directory", JNull))
      [] file.kind = "garbage" ->
            Raise(Exc("JSONDecodeError", "Expecting value", JNull))
      [] OTHER -> Return(JNull)

\* proof_data.get('protocol')
get_protocol(d) ==
    IF d.kind # "object"
    THEN Raise(Exc("AttributeError", "'list' object has no attribute 'get'", JNull))
    ELSE Return(IF d.protocol.t = "absent" THEN JNull ELSE d.protocol)

check_protocol(d) ==
    LET p == get_protocol(d)
    IN IF Raised(p) THEN p
       ELSE IF p.v # Str(GROTH16)
       THEN Raise(Exc("ValueError", "Expected groth16 protocol, got ", p.v))
       ELSE Return(JNull)

\* the extraction with pi_b read in natural index order (x0 first)
ExtractedNatural(d) ==
    [a_x |-> IntOf(GetItem(GetKey(d, PI_A, d.pi_a), 0)),
     a_y |-> IntOf(GetItem(GetKey(d, PI_A, d.pi_a), 1)),
     b_x0 |-> IntOf(GetItem(GetItem(GetKey(d, PI_B, d.pi_b), 0), 0)),
     b_x1 |-> IntOf(GetItem(GetItem(GetKey(d, PI_B, d.pi_b), 0), 1)),
     b_y0 |-> IntOf(GetItem(GetItem(GetKey(d, PI_B, d.pi_b), 1), 0)),
     b_y1 |-> IntOf(GetItem(GetItem(GetKey(d, PI_B, d.pi_b), 1), 1)),
     c_x |-> IntOf(GetItem(GetKey(d, PI_C, d.pi_c), 0)),
     c_y |-> IntOf(GetItem(GetKey(d, PI_C, d.pi_c), 1))]

\* the eight coordinates, in the order the source extracts them
Extracted(d) ==
    LET pi_a == GetKey(d, PI_A, d.pi_a)
        pi_b == GetKey(d, PI_B, d.pi_b)
        pi_c == GetKey(d, PI_C, d.pi_c)
    IN [a_x |-> IntOf(GetItem(pi_a, 0)),
        a_y |-> IntOf(GetItem(pi_a, 1)),
        b_x0 |-> IntOf(GetItem(GetItem(pi_b, 0), 1)),
        b_x1 |-> IntOf(GetItem(GetItem(pi_b, 0), 0)),
        b_y0 |-> IntOf(GetItem(GetItem(pi_b, 1), 1)),
        b_y1 |-> IntOf(GetItem(GetItem(pi_b, 1), 0)),
        c_x |-> IntOf(GetItem(pi_c, 0)),
        c_y |-> IntOf(GetItem(pi_c, 1))]

NAMES == <<"a.x", "a.y", "b.x0", "b.x1", "b.y0", "b.y1", "c.x", "c.y">>

\* the "Log si hubo overflow" loop
ModuloLog(orig, mod) ==
    [i \in 1..8 |->
        IF orig[i] # mod[i] THEN Line("applied modulo", NAMES[i])
        ELSE Line("OK", NAMES[i])]

\* the dict built at the end of the try block
GaragaProof(a_x, a_y, b_x0, b_x1, b_y0, b_y1, c_x, c_y) ==
    [EmptyDict EXCEPT
        !.a = Point("dict", Str(hex(a_x)), Str(hex(a_y))),
        !.b = Point("dict", List(<<Str(hex(b_x0)), Str(hex(b_x1))>>),
                            List(<<Str(hex(b_y0)), Str(hex(b_y1))>>)),
        !.c = Point("dict", Str(hex(c_x)), Str(hex(c_y)))]

\* the two except clauses: KeyError first, then Exception
ConvertHandler(cause) ==
    IF cause.type = "KeyError"
    THEN Exc("ValueError", "Missing required field in proof: ", cause.val)
    ELSE Exc("ValueError", "Failed to convert proof: ", cause.val)

\* the statements of the try block that can raise, in source order
Statements(file, x) ==
    <<json_load(file), check_protocol(file),
      GetKey(file, PI_A, file.pi_a), x.a_x, x.a_y,
      GetKey(file, PI_B, file.pi_b), x.b_x0, x.b_x1, x.b_y0, x.b_y1,
      GetKey(file, PI_C, file.pi_c), x.c_x, x.c_y>>

\* values_original and values_mod, in the order of NAMES
Originals(x) ==
    <<x.a_x.v.n, x.a_y.v.n, x.b_x0.v.n, x.b_x1.v.n,
      x.b_y0.v.n, x.b_y1.v.n, x.c_x.v.n, x.c_y.v.n>>
Modded(orig) == [i \in 1..8 |-> apply_felt_modulo(orig[i])]

Converted(orig, mod) ==
    Outcome(TRUE,
            GaragaProof(mod[1], mod[2], mod[3], mod[4], mod[5], mod[6], mod[7], mod[8]),
            NoExc, NoExc,
            <<Line("Applying felt252 modulo to proof values...", "")>>
                \o ModuloLog(orig, mod))

TryConvert(cause, x) ==
    IF cause # NoExc
    THEN Outcome(FALSE, NoDict, ConvertHandler(cause), cause, <<>>)
    ELSE Converted(Originals(x), Modded(Originals(x)))

ConvertExtracted(file, x) == TryConvert(FirstRaised(Statements(file, x)), x)

convert_proof_to_garaga(file) == ConvertExtracted(file, Extracted(file))

---------------------------------------------------------------------------
(* proof_to_calldata *)

\* garaga_proof[name][coord], name one of a, b, c and coord one of x, y
Held(point, coord) == IF coord = "x" THEN point.x ELSE point.y

GetPoint(name, point, coord) ==
    CASE point.t = "absent" -> Raise(Exc("KeyError", "", Str(name)))
      [] point.t # "dict" ->
            Raise(Exc("TypeError", "object is not subscriptable", JNull))
      [] Held(point, coord).t = "absent" -> Raise(Exc("KeyError", "", Str(<<coord>>)))
      [] OTHER -> Return(Held(point, coord))

\* the decoding with the two entries of b.x and of b.y exchanged
DecodedSwapped(g) ==
    <<Int16Of(GetPoint(<<"a">>, g.a, "x")),
      Int16Of(GetPoint(<<"a">>, g.a, "y")),
      Int16Of(GetItem(GetPoint(<<"b">>, g.b, "x"), 1)),
      Int16Of(GetItem(GetPoint(<<"b">>, g.b, "x"), 0)),
      Int16Of(GetItem(GetPoint(<<"b">>, g.b, "y"), 1)),
      Int16Of(GetItem(GetPoint(<<"b">>, g.b, "y"), 0)),
      Int16Of(GetPoint(<<"c">>, g.c, "x")),
      Int16Of(GetPoint(<<"c">>, g.c, "y"))>>

\* the decoding with int(...) in place of int(..., 16)
DecodedBase10(g) ==
    <<IntOf(GetPoint(<<"a">>, g.a, "x")),
      IntOf(GetPoint(<<"a">>, g.a, "y")),
      IntOf(GetItem(GetPoint(<<"b">>, g.b, "x"), 0)),
      IntOf(GetItem(GetPoint(<<"b">>, g.b, "x"), 1)),
      IntOf(GetItem(GetPoint(<<"b">>, g.b, "y"), 0)),
      IntOf(GetItem(GetPoint(<<"b">>, g.b, "y"), 1)),
      IntOf(GetPoint(<<"c">>, g.c, "x")),
      IntOf(GetPoint(<<"c">>, g.c, "y"))>>

\* the eight int(..., 16) of the try block, in source order
Decoded(g) ==
    <<Int16Of(GetPoint(<<"a">>, g.a, "x")),
      Int16Of(GetPoint(<<"a">>, g.a, "y")),
      Int16Of(GetItem(GetPoint(<<"b">>, g.b, "x"), 0)),
      Int16Of(GetItem(GetPoint(<<"b">>, g.b, "x"), 1)),
      Int16Of(GetItem(GetPoint(<<"b">>, g.b, "y"), 0)),
      Int16Of(GetItem(GetPoint(<<"b">>, g.b, "y"), 1)),
      Int16Of(GetPoint(<<"c">>, g.c, "x")),
      Int16Of(GetPoint(<<"c">>, g.c, "y"))>>

\* the calldata with a further reduction of every value
TryCalldataReducing(cause, ints) ==
    IF cause # NoExc
    THEN Outcome(FALSE, <<>>,
                 Exc("ValueError", "Failed to generate calldata: ", cause.val),
                 cause, <<>>)
    ELSE Outcome(TRUE, [i \in 1..8 |-> str(apply_felt_modulo(ints[i].v.n))],
                 NoExc, NoExc, <<>>)

\* the list built from the eight integers, or the handler's ValueError
TryCalldata(cause, ints) ==
    IF cause # NoExc
    THEN Outcome(FALSE, <<>>,
                 Exc("ValueError", "Failed to generate calldata: ", cause.val),
                 cause, <<>>)
    ELSE Outcome(TRUE, [i \in 1..8 |-> str(ints[i].v.n)], NoExc, NoExc, <<>>)

CalldataOf(ints) == TryCalldata(FirstRaised(ints), ints)

proof_to_calldata(g) == CalldataOf(Decoded(g))

---------------------------------------------------------------------------
(* The inputs.  BaseProof is a well-formed proof with eight different      *)
(* coordinates below the modulus; the proofs explored are BaseProof with   *)
(* up to two of its parts replaced: a coordinate by any of CoordTokens, a  *)
(* point by a value of another shape, the protocol, or the whole file.     *)

M == STARKNET_FELT_MAX

BaseProof ==
    [EmptyDict EXCEPT
        !.protocol = Str(GROTH16),
        !.pi_a = List(<<Str(<<"1">>), Str(<<"2">>)>>),
        !.pi_b = List(<<List(<<Str(<<"3">>), Str(<<"4">>)>>),
                        List(<<Str(<<"5">>), Str(<<"6">>)>>)>>),
        !.pi_c = List(<<Str(<<"7">>), Str(<<"8">>)>>)]

CoordTokens ==
    {Num(0), Num(M - 1), Num(M), Str(str(M + 1)), Str(str(2 * M + 5)),
     Str(<<"-", "1">>), Str(<<" ", "9", "\n">>), Str(<<"z">>), JNull,
     J("float", 2, <<"5">>, <<>>)}

ShapeTokens ==
    {JAbsent, JNull, JDict, Num(5), Str(<<"1", "2">>), List(<<Str(<<"1">>)>>),
     List(<<JDict, List(<<Str(<<"5">>)>>)>>)}

ProtocolTokens == {JAbsent, JNull, Str(<<"p", "l", "o", "n", "k">>)}

FileKinds == {"absent", "garbage", "array"}

\* d with element i (0-based) of list l replaced
SetItem(l, i, tok) == List([l.e EXCEPT ![i + 1] = tok])

WithCoords(d) ==
    {[d EXCEPT !.pi_a = SetItem(@, i, tok)] : i \in 0..1, tok \in CoordTokens}
    \cup {[d EXCEPT !.pi_c = SetItem(@, i, tok)] : i \in 0..1, tok \in CoordTokens}
    \cup {[d EXCEPT !.pi_b = SetItem(@, i, SetItem(@.e[i + 1], j, tok))] :
            i \in 0..1, j \in 0..1, tok \in CoordTokens}

WithShapes(d) ==
    {[d EXCEPT !.pi_a = tok] : tok \in ShapeTokens}
    \cup {[d EXCEPT !.pi_b = tok] : tok \in ShapeTokens}
    \cup {[d EXCEPT !.pi_c = tok] : tok \in ShapeTokens}
    \cup {[d EXCEPT !.protocol = tok] : tok \in ProtocolTokens}
    \cup {[d EXCEPT !.kind = k] : k \in FileKinds}

WellShaped(d) ==
    /\ d.pi_a.t = "list" /\ Len(d.pi_a.e) = 2
    /\ d.pi_c.t = "list" /\ Len(d.pi_c.e) = 2
    /\ d.pi_b.t = "list" /\ Len(d.pi_b.e) = 2
    /\ \A i \in 1..2 : d.pi_b.e[i].t = "list" /\ Len(d.pi_b.e[i].e) = 2

OneEdit(d) == WithShapes(d) \cup (IF WellShaped(d) THEN WithCoords(d) ELSE {})

\* d with up to one, up to two of its parts replaced
Edited1(d) == {d} \cup OneEdit(d)
Edited2(d) == Edited1(d) \cup UNION {OneEdit(e) : e \in OneEdit(d)}

---------------------------------------------------------------------------
(* Specification SpecReduce: apply_felt_modulo on its own *)

NoOutcome == Outcome(FALSE, NoDict, NoExc, NoExc, <<>>)
NoCalldata == Outcome(FALSE, <<>>, NoExc, NoExc, <<>>)
NoExit == 0 - 1
NoPath == <<>>

Idle ==
    /\ argv = <<>> /\ fs = <<>> /\ fs0 = <<>> /\ garaga_file = NoPath
    /\ stdout = <<>> /\ stderr = <<>> /\ exit_code = NoExit

InitReduce ==
    /\ pc = "reduce"
    /\ value \in (0 - MaxNegative)..(MaxMultiple * M + 3)
    /\ reduced = 0
    /\ conv = NoOutcome /\ cd = NoCalldata
    /\ Idle

Reduce ==
    /\ pc = "reduce"
    /\ reduced' = apply_felt_modulo(value)
    /\ pc' = "reduced"
    /\ UNCHANGED <<value, argv, fs, fs0, garaga_file, conv, cd, stdout, stderr, exit_code>>

SpecReduce == InitReduce /\ [][Reduce]_vars

---------------------------------------------------------------------------
(* Specification SpecConvert: convert_proof_to_garaga on the content of a  *)
(* proof file, then proof_to_calldata on what it returned.                 *)

InitConvert ==
    /\ pc = "convert"
    /\ value = 0 /\ reduced = 0
    /\ argv = <<>> /\ fs0 = <<>> /\ garaga_file = NoPath
    /\ fs \in Edited2(BaseProof)
    /\ conv = NoOutcome /\ cd = NoCalldata
    /\ stdout = <<>> /\ stderr = <<>> /\ exit_code = NoExit

Convert ==
    /\ pc = "convert"
    /\ conv' = convert_proof_to_garaga(fs)
    /\ stderr' = stderr \o conv'.log
    /\ pc' = IF conv'.ok THEN "calldata" ELSE "raised"
    /\ UNCHANGED <<value, reduced, argv, fs, fs0, garaga_file, cd, stdout, exit_code>>

Calldata ==
    /\ pc = "calldata"
    /\ cd' = proof_to_calldata(conv.value)
    /\ pc' = IF cd'.ok THEN "returned" ELSE "raised"
    /\ UNCHANGED <<value, reduced, argv, fs, fs0, garaga_file, conv, stdout, stderr, exit_code>>

SpecConvert == InitConvert /\ [][Convert \/ Calldata]_vars

---------------------------------------------------------------------------
(* Specification SpecCalldata: proof_to_calldata on any dict, not only on  *)
(* those convert_proof_to_garaga builds: BaseGaraga with up to two of its  *)
(* parts replaced.                                                         *)

BaseGaraga == GaragaProof(1, 2, 4, 3, 6, 5, 7, 8)

HexValues == {0, 10, M - 1, M, 2 * M + 5}

HexTokens ==
    {Str(hex(v)) : v \in HexValues}
    \cup {Str(<<"1", "F">>), Str(<<"-", "0", "x", "3">>), Str(<<" ", "0", "X", "a", " ">>),
          Str(<<"0", "x", "g">>), Str(<<"0", "x">>), Str(<<>>), Num(5), JNull, JAbsent}

PointTokens == {NoPoint, Point("NoneType", JAbsent, JAbsent)}

ListTokens == {List(<<Str(<<"0", "x", "1">>)>>), Str(<<"a", "b">>), JDict, JAbsent}

WithHex(g) ==
    {[g EXCEPT !.a.x = tok] : tok \in HexTokens}
    \cup {[g EXCEPT !.a.y = tok] : tok \in HexTokens}
    \cup {[g EXCEPT !.c.x = tok] : tok \in HexTokens}
    \cup {[g EXCEPT !.c.y = tok] : tok \in HexTokens}
    \cup (IF g.b.x.t = "list" /\ Len(g.b.x.e) = 2
          THEN {[g EXCEPT !.b.x = SetItem(@, i, tok)] : i \in 0..1, tok \in HexTokens}
          ELSE {})
    \cup (IF g.b.y.t = "list" /\ Len(g.b.y.e) = 2
          THEN {[g EXCEPT !.b.y = SetItem(@, i, tok)] : i \in 0..1, tok \in HexTokens}
          ELSE {})
    \cup {[g EXCEPT !.a = tok] : tok \in PointTokens}
    \cup {[g EXCEPT !.b = tok] : tok \in PointTokens}
    \cup {[g EXCEPT !.c = tok] : tok \in PointTokens}
    \cup {[g EXCEPT !.b.x = tok] : tok \in ListTokens}
    \cup {[g EXCEPT !.b.y = tok] : tok \in ListTokens}

WithHex2(g) == {g} \cup WithHex(g) \cup UNION {WithHex(h) : h \in WithHex(g)}

InitCalldata ==
    /\ pc = "calldata"
    /\ value = 0 /\ reduced = 0
    /\ \E g \in WithHex2(BaseGaraga) : conv = Outcome(TRUE, g, NoExc, NoExc, <<>>)
    /\ cd = NoCalldata
    /\ Idle

SpecCalldata == InitCalldata /\ [][Calldata]_vars

---------------------------------------------------------------------------
(* Specification Spec: one run of main *)

SCRIPT == <<"c", "o", "n", "v", "e", "r", "t", "_", "g", "a", "r", "a", "g", "a",
            ".", "p", "y">>
DOT_JSON == <<".", "j", "s", "o", "n">>
GARAGA_JSON == <<"_", "g", "a", "r", "a", "g", "a", ".", "j", "s", "o", "n">>

\* s.replace(old, new): every occurrence, left to right, without overlap
RECURSIVE Replace(_, _, _)
Replace(s, old, new) ==
    IF Len(s) < Len(old) THEN s
    ELSE IF SubSeq(s, 1, Len(old)) = old
    THEN new \o Replace(SubSeq(s, Len(old) + 1, Len(s)), old, new)
    ELSE <<s[1]>> \o Replace(Tail(s), old, new)

InputPaths ==
    {<<"p">> \o DOT_JSON,
     <<"p", ".", "t", "x", "t">>,
     <<"p">>,
     <<"p">> \o DOT_JSON \o DOT_JSON}

Paths == InputPaths \cup {Replace(p, DOT_JSON, GARAGA_JSON) : p \in InputPaths}

Init ==
    /\ pc = "main"
    /\ value = 0 /\ reduced = 0
    /\ \E p \in InputPaths, content \in Edited1(BaseProof) :
            /\ fs = [q \in Paths |-> IF q = p THEN content ELSE NoFile]
            /\ argv \in {<<SCRIPT>>, <<SCRIPT, p>>}
    /\ fs0 = fs
    /\ garaga_file = NoPath
    /\ conv = NoOutcome /\ cd = NoCalldata
    /\ stdout = <<>> /\ stderr = <<>> /\ exit_code = NoExit

proof_file == argv[2]

\* Path(proof_file).exists()
Exists(path) == fs[path].kind # "absent"

\* sys.exit(1) after a message on stderr
Exit1(lines) ==
    /\ stderr' = stderr \o lines
    /\ exit_code' = 1
    /\ pc' = "exited"

\* an except clause that prints the error to stdout
HandlerStdout(e, log) ==
    /\ Exit1(log \o <<Line("traceback", e.type)>>)
    /\ stdout' = Append(stdout, <<e.val.s>>)

\* main's except clause

Handler(e, log) ==
    /\ Exit1(log \o <<Line("Error: ", e.text), Line("traceback", e.type)>>)
    /\ UNCHANGED stdout

MainUsage ==
    /\ pc = "main"
    /\ Len(argv) < 2
    /\ Exit1(<<Line("Usage: python convert_garaga.py <proof_file.json>", "")>>)
    /\ UNCHANGED <<value, reduced, argv, fs, fs0, garaga_file, conv, cd, stdout>>

MainNotFound ==
    /\ pc = "main"
    /\ Len(argv) >= 2
    /\ ~Exists(proof_file)
    /\ Exit1(<<Line("Error: File not found: ", "")>>)
    /\ UNCHANGED <<value, reduced, argv, fs, fs0, garaga_file, conv, cd, stdout>>

MainConvert ==
    /\ pc = "main"
    /\ Len(argv) >= 2
    /\ Exists(proof_file)
    /\ conv' = convert_proof_to_garaga(fs[proof_file])
    /\ IF conv'.ok
       THEN /\ stderr' = stderr \o conv'.log
            /\ pc' = "save"
            /\ UNCHANGED <<stdout, exit_code>>
       ELSE Handler(conv'.exc, conv'.log)
    /\ UNCHANGED <<value, reduced, argv, fs, fs0, garaga_file, cd>>

\* open(garaga_file, 'w') and json.dump: the open may fail (the file system
\* refuses), the dump may fail after the file was truncated (the disk is full)
MainSave ==
    /\ pc = "save"
    /\ garaga_file' = Replace(proof_file, DOT_JSON, GARAGA_JSON)
    /\ \E io \in {"saved", "open fails", "dump fails"} :
          CASE io = "saved" ->
                /\ fs' = [fs EXCEPT ![garaga_file'] = conv.value]
                /\ stderr' = stderr \o
                      <<Line("Garaga proof saved to: ", ""),
                        Line("Generating calldata (values already have felt252 modulo applied)", "")>>
                /\ pc' = "generate"
                /\ UNCHANGED <<stdout, exit_code>>
            [] io = "open fails" ->
                /\ Handler(Exc("OSError", "Permission denied", JNull), <<>>)
                /\ UNCHANGED fs
            [] io = "dump fails" ->
                /\ fs' = [fs EXCEPT ![garaga_file'] = Garbage]
                /\ Handler(Exc("OSError", "No space left on device", JNull), <<>>)
    /\ UNCHANGED <<value, reduced, argv, fs0, conv, cd>>

MainCalldata ==
    /\ pc = "generate"
    /\ cd' = proof_to_calldata(conv.value)
    /\ IF cd'.ok
       THEN /\ pc' = "print"
            /\ UNCHANGED <<stdout, stderr, exit_code>>
       ELSE Handler(cd'.exc, <<>>)
    /\ UNCHANGED <<value, reduced, argv, fs, fs0, garaga_file, conv>>

\* print(json.dumps(calldata)); return 0; sys.exit(main())
MainPrint ==
    /\ pc = "print"
    /\ stdout' = Append(stdout, cd.value)
    /\ exit_code' = 0
    /\ pc' = "exited"
    /\ UNCHANGED <<value, reduced, argv, fs, fs0, garaga_file, conv, cd, stderr>>

Next ==
    \/ MainUsage
    \/ MainNotFound
    \/ MainConvert
    \/ MainSave
    \/ MainCalldata
    \/ MainPrint

Spec == Init /\ [][Next]_vars

---------------------------------------------------------------------------
(* Vocabulary of the properties *)

\* The error kinds of the design, told apart by the message of the
\* ValueError that leaves the function.
ErrorKind(e) ==
    CASE e.text = "Expected groth16 protocol, got " -> "ValidationError"
      [] e.text = "Missing required field in proof: " -> "MissingFieldError"
      [] e.text = "Failed to convert proof: " -> "ConversionError"
      [] e.text = "Failed to generate calldata: " -> "CalldataError"
      [] OTHER -> "other"

\* obj[i] of a JSON value
Item(j, i) == GetItem(Return(j), i).v

\* the source coordinates in calldata order
SourceOrder(d) ==
    <<Item(d.pi_a, 0), Item(d.pi_a, 1),
      Item(Item(d.pi_b, 0), 1), Item(Item(d.pi_b, 0), 0),
      Item(Item(d.pi_b, 1), 1), Item(Item(d.pi_b, 1), 0),
      Item(d.pi_c, 0), Item(d.pi_c, 1)>>
SourceValue(d, i) == int(SourceOrder(d)[i]).v.n

\* the integer a decimal string denotes
Decimal(s) == int_text(s, 10).v.n

\* the hex string of the field element a source coordinate reduces to
Enc(tok) == Str(hex(apply_felt_modulo(int(tok).v.n)))

InField(v) == v \in 0..(M - 1)

PiBShaped(d) ==
    /\ d.pi_b.t = "list" /\ Len(d.pi_b.e) = 2
    /\ \A i \in 1..2 : d.pi_b.e[i].t = "list" /\ Len(d.pi_b.e[i].e) = 2

Seq8(a, b, c, d, e, f, g, h) == <<<<a>>, <<b>>, <<c>>, <<d>>, <<e>>, <<f>>, <<g>>, <<h>>>>

---------------------------------------------------------------------------
(* C1: for a non-negative v, apply_felt_modulo(v) is v mod FIELD_MODULUS:  *)
(* below the modulus, equal to v when v is below the modulus, and          *)
(* otherwise congruent to v.  (SpecReduce)                                 *)
C1_ReductionIsModulo ==
    (pc = "reduced" /\ value >= 0) =>
        /\ InField(reduced)
        /\ value < M => reduced = value
        /\ \E k \in 0..(MaxMultiple + 1) : value = k * M + reduced

C1_Witness == pc = "reduced" /\ value = 2 * M + 1 /\ reduced = 1

(* C2: every value convert_proof_to_garaga emits, and every calldata value *)
(* derived from it, is a field element: 0 <= value < FIELD_MODULUS.        *)
(* (SpecConvert)                                                           *)
C2_OutputsInField ==
    conv.ok =>
        /\ \A i \in 1..8 : /\ ~Raised(Decoded(conv.value)[i])
                           /\ InField(Decoded(conv.value)[i].v.n)
        /\ cd.ok => \A i \in 1..8 : InField(Decimal(cd.value[i]))

(* C3: with pi_b = [[H0, L0], [H1, L1]] the returned proof has             *)
(* b.x = [reduce(L0), reduce(H0)] and b.y = [reduce(L1), reduce(H1)],      *)
(* hex-encoded.  (SpecConvert)                                             *)
C3_G2IndexConvention ==
    (conv.ok /\ PiBShaped(fs)) =>
        /\ conv.value.b.x = List(<<Enc(fs.pi_b.e[1].e[2]), Enc(fs.pi_b.e[1].e[1])>>)
        /\ conv.value.b.y = List(<<Enc(fs.pi_b.e[2].e[2]), Enc(fs.pi_b.e[2].e[1])>>)

C3_Witness ==
    /\ pc = "calldata" /\ conv.ok /\ PiBShaped(fs)
    /\ fs.pi_b.e[1].e[1] = Str(str(M + 1))
    /\ conv.value.b.x = List(<<Str(<<"0", "x", "4">>), Str(<<"0", "x", "1">>)>>)
    /\ conv.value.b.y = List(<<Str(<<"0", "x", "6">>), Str(<<"0", "x", "5">>)>>)

(* C4: proof_to_calldata(convert_proof_to_garaga(input)) is the sequence   *)
(* of the decimal strings of reduce(pi_a[0]), reduce(pi_a[1]),             *)
(* reduce(pi_b[0][1]), reduce(pi_b[0][0]), reduce(pi_b[1][1]),             *)
(* reduce(pi_b[1][0]), reduce(pi_c[0]), reduce(pi_c[1]); a position whose  *)
(* source is below the modulus holds the source value whatever happens to  *)
(* the other seven.  (SpecConvert)                                         *)
C4_CalldataIsReducedSource ==
    (conv.ok /\ pc # "calldata") =>
        /\ cd.ok
        /\ cd.value = [i \in 1..8 |-> str(apply_felt_modulo(SourceValue(fs, i)))]
        /\ \A i \in 1..8 :
              InField(SourceValue(fs, i)) => Decimal(cd.value[i]) = SourceValue(fs, i)

C4_Witness ==
    /\ pc = "returned"
    /\ fs.pi_a.t = "list" /\ fs.pi_a.e[1] = Num(M)
    /\ cd.value = Seq8("0", "2", "4", "3", "6", "5", "7", "8")

(* C5: on a Garaga proof whose eight fields are valid hex strings,         *)
(* proof_to_calldata yields 8 decimal strings whose values are the         *)
(* hex-decoded fields in the order a.x, a.y, b.x[0], b.x[1], b.y[0],       *)
(* b.y[1], c.x, c.y, with no reduction, and a field hex(v) comes back as   *)
(* v.  (SpecCalldata)                                                      *)
C5_CalldataDecodesFields ==
    (pc # "calldata" /\ \A i \in 1..8 : ~Raised(Decoded(conv.value)[i])) =>
        /\ cd.ok
        /\ Len(cd.value) = 8
        /\ \A i \in 1..8 : Decimal(cd.value[i]) = Decoded(conv.value)[i].v.n
        /\ \A v \in HexValues :
              /\ conv.value.a.x = Str(hex(v)) => Decimal(cd.value[1]) = v
              /\ conv.value.a.y = Str(hex(v)) => Decimal(cd.value[2]) = v
              /\ Item(conv.value.b.x, 0) = Str(hex(v)) => Decimal(cd.value[3]) = v
              /\ Item(conv.value.b.x, 1) = Str(hex(v)) => Decimal(cd.value[4]) = v
              /\ Item(conv.value.b.y, 0) = Str(hex(v)) => Decimal(cd.value[5]) = v
              /\ Item(conv.value.b.y, 1) = Str(hex(v)) => Decimal(cd.value[6]) = v
              /\ conv.value.c.x = Str(hex(v)) => Decimal(cd.value[7]) = v
              /\ conv.value.c.y = Str(hex(v)) => Decimal(cd.value[8]) = v

C5_Witness ==
    /\ pc = "returned"
    /\ conv.value.a.x = Str(hex(2 * M + 5))
    /\ conv.value.c.y = Str(<<"1", "F">>)
    /\ cd.ok /\ cd.value[1] = str(2 * M + 5) /\ cd.value[8] = <<"3", "1">>

(* C6: a protocol other than "groth16" (or none) makes                     *)
(* convert_proof_to_garaga fail with a ValidationError carrying the        *)
(* protocol value, a kind distinct from MissingFieldError and              *)
(* ConversionError, whatever the coordinates are, and no proof is          *)
(* returned.  (SpecConvert)                                                *)
C6_ProtocolValidationError ==
    (pc # "convert" /\ fs.kind = "object" /\ fs.protocol # Str(GROTH16)) =>
        /\ ~conv.ok
        /\ conv.value = NoDict
        /\ conv.exc.val = (IF fs.protocol.t = "absent" THEN JNull ELSE fs.protocol)
        /\ ErrorKind(conv.exc) = "ValidationError"
        /\ ErrorKind(conv.exc) \notin {"MissingFieldError", "ConversionError"}

\* the required fields that the input lacks, by position in pi_a, pi_b, pi_c
RequiredFields(d) == <<d.pi_a, d.pi_b, d.pi_c>>
AbsentFields(d) == {i \in 1..3 : RequiredFields(d)[i].t = "absent"}
FirstAbsent(d) == CHOOSE i \in AbsentFields(d) : \A j \in AbsentFields(d) : i <= j

(* C7: a groth16 input fails with MissingFieldError naming the field       *)
(* exactly when one of pi_a, pi_b, pi_c is absent (the first absent one is *)
(* named); every other failure is a ConversionError; no proof is returned  *)
(* either way.  (SpecConvert)                                              *)
C7_MissingFieldExactly ==
    (pc # "convert" /\ fs.kind = "object" /\ fs.protocol = Str(GROTH16) /\ ~conv.ok) =>
        /\ conv.value = NoDict
        /\ IF AbsentFields(fs) # {}
           THEN /\ ErrorKind(conv.exc) = "MissingFieldError"
                /\ conv.exc.val = Str(<<PI_A, PI_B, PI_C>>[FirstAbsent(fs)])
           ELSE ErrorKind(conv.exc) = "ConversionError"

---------------------------------------------------------------------------
(* Properties of main (Spec) *)

\* the last thing written to stderr describes an error
ErrorReported ==
    /\ stderr # <<>>
    /\ stderr[Len(stderr)].msg \in
          {"Usage: python convert_garaga.py <proof_file.json>",
           "Error: File not found: ", "traceback"}
    /\ stderr[Len(stderr)].msg = "traceback" =>
          /\ Len(stderr) >= 2
          /\ stderr[Len(stderr) - 1].msg = "Error: "

\* the run reached the line after the side file was written
Saved == \E i \in 1..Len(stderr) : stderr[i].msg = "Garaga proof saved to: "

\* something on the way failed
Failed ==
    \/ Len(argv) < 2
    \/ fs0[proof_file].kind = "absent"
    \/ ~conv.ok
    \/ ~Saved
    \/ ~cd.ok

\* the path with its suffix (the last dot of the name and what follows it)
\* replaced by _garaga.json
Dots(path) == {i \in 2..Len(path) : path[i] = "."}
LastDot(path) == CHOOSE i \in Dots(path) : \A j \in Dots(path) : j <= i
Stem(path) == IF Dots(path) = {} THEN path ELSE SubSeq(path, 1, LastDot(path) - 1)
WithSuffix(path) == Stem(path) \o GARAGA_JSON

(* C8: the calldata is on stdout if and only if the process ends with exit *)
(* code 0; every failure path ends with exit code 1, an error description  *)
(* on stderr and nothing on stdout; stdout is written at most once, as the *)
(* last step.  (Spec)                                                      *)
C8_StdoutIffSuccess ==
    /\ Len(stdout) <= 1
    /\ stdout # <<>> => (pc = "exited" /\ exit_code = 0 /\ cd.ok /\ stdout = <<cd.value>>)
    /\ pc # "exited" => exit_code = NoExit
    /\ pc = "exited" => exit_code \in {0, 1}
    /\ exit_code = 0 => stdout # <<>>
    /\ exit_code = 1 => (stdout = <<>> /\ ErrorReported)
    /\ (pc = "exited" /\ Failed) => exit_code = 1

C8_Witness ==
    /\ pc = "exited" /\ exit_code = 1
    /\ conv.ok /\ ~Saved
    /\ stdout = <<>> /\ ErrorReported

(* C9: when conversion succeeds main writes the Garaga proof to the input  *)
(* path with its suffix replaced by _garaga.json, a path different from    *)
(* the input path, so the input file still holds what it held.  (Spec)     *)
C9_SideFileBesideInput ==
    Saved =>
        /\ fs[garaga_file] = conv.value
        /\ garaga_file = WithSuffix(proof_file)
        /\ garaga_file # proof_file
        /\ fs[proof_file] = fs0[proof_file]

(* C10: proof_to_calldata never fails on what convert_proof_to_garaga      *)
(* returned, so a run of main that wrote the side file cannot end with a   *)
(* CalldataError: it ends with exit code 0.  (Spec)                        *)
C10_CalldataNeverFails ==
    /\ conv.ok => proof_to_calldata(conv.value).ok
    /\ \A i \in 1..Len(stderr) : stderr[i].arg # "Failed to generate calldata: "
    /\ (Saved /\ pc \in {"print", "exited"}) => cd.ok
    /\ (Saved /\ pc = "exited") => exit_code = 0

C10_Witness ==
    /\ pc = "exited" /\ exit_code = 0 /\ Saved
    /\ fs0[proof_file].pi_c.t = "list"
    /\ fs0[proof_file].pi_c.e[2] = Str(str(2 * M + 5))
    /\ conv.value.c.y = Str(<<"0", "x", "5">>)
    /\ stdout[1][8] = <<"5">>

===========================================================================
